---------------------------- MODULE Spec2Model ----------------------------
(***************************************************************************)
(* Model of whatsup.py: the orientation search over cascades, scales and   *)
(* 90-degree rotations, the brightest-side fallback and the command-line   *)
(* driver around them.                                                     *)
(*                                                                         *)
(* The cascade classifier (cc.detectMultiScale) is external: for one       *)
(* classifier and one picture it is a fixed but unknown function of the    *)
(* picture's orientation, the table `respond`.  The cv2 resize/blur/mean   *)
(* pipeline of detect_brightest_side is external too: its four sample      *)
(* values are drawn from 0..MaxMean.                                       *)
(***************************************************************************)
EXTENDS Integers, Sequences, FiniteSets, TLC

VARIABLES
    pc,             \* position of the program
    argc,           \* len(sys.argv)
    isfile,         \* os.path.isfile(sys.argv[-1])
    decodable,      \* whether cv2.imread can decode the file
    src_h, src_w,   \* dimensions of the picture stored in the file
    stdout,         \* what has been printed, in order
    exit_status,    \* -1 while running, else the process exit status
    image,          \* try_detect: local `image`
    cascade_idx,    \* try_detect: index of THIS_CASCADE in CASCADES_TO_USE
    counter,        \* try_detect: local `counter` (scale divisor)
    image_resized,  \* try_detect: local `image_resized`
    respond,        \* answer of the current classifier per orientation
    df_image,       \* detect_faces: local `image`
    df_counter,     \* detect_faces: local `counter`
    df_calls,       \* detectMultiScale invocations of the current detect_faces call
    results,        \* value returned by the last detect_faces call
    calls,          \* log of all detectMultiScale invocations
    ret,            \* value returned by try_detect
    samples,        \* detect_brightest_side: local `samples`
    bright_arg,     \* the image detect_brightest_side was called with
    bright_ret,     \* the value detect_brightest_side returned
    pre_k,          \* rotation harness: clockwise quarter turns applied beforehand
    first_results   \* rotation harness: detect_faces result on the un-rotated image

vars == << pc, argc, isfile, decodable, src_h, src_w, stdout, exit_status,
           image, cascade_idx, counter, image_resized, respond, df_image,
           df_counter, df_calls, results, calls, ret, samples, bright_arg,
           bright_ret, pre_k, first_results >>

---------------------------------------------------------------------------
(* Bounds of the model *)

MaxDim == 3
MaxMean == 2
MaxArgc == 3

---------------------------------------------------------------------------
(* Program constants *)

NumCascades == 4
rotation_maximum == 4
ratio == 3
count_start == 2
count_minimum == 1
RequiredArgc == 2

boundary == ratio - 1

Orientations == 0 .. 3

---------------------------------------------------------------------------
(* Python values *)

PyFalse == [tag |-> "bool", val |-> 0, text |-> ""]
PyInt(n) == [tag |-> "int", val |-> n, text |-> ""]
PyStr(s) == [tag |-> "str", val |-> 0, text |-> s]
PyNone == [tag |-> "none", val |-> 0, text |-> ""]

\* round(n / d) for n >= 0, d > 0: Python rounds halves to the even neighbour
PyRound(n, d) ==
    LET q == n \div d
        r == n % d
    IN  IF 2 * r < d THEN q
        ELSE IF 2 * r > d THEN q + 1
        ELSE IF q % 2 = 0 THEN q ELSE q + 1

---------------------------------------------------------------------------
(* Images: dimensions, orientation relative to the stored picture (number  *)
(* of clockwise quarter turns), channels and the preprocessing applied.    *)

NoImage == [h |-> 0, w |-> 0, orient |-> 0, channels |-> 0,
            scaled |-> FALSE, equalized |-> FALSE]

imread(h, w, ok) ==
    IF ok THEN [h |-> h, w |-> w, orient |-> 0, channels |-> 3,
                scaled |-> FALSE, equalized |-> FALSE]
    ELSE NoImage

convertScaleAbs(img) == [img EXCEPT !.scaled = TRUE]
cvtColor(img) == [img EXCEPT !.channels = 1]
equalizeHist(img) == [img EXCEPT !.equalized = TRUE]

resize(img, new_w, new_h) == [img EXCEPT !.h = new_h, !.w = new_w]

rotateMutant(img) ==
    [img EXCEPT !.h = img.w, !.w = img.h, !.orient = (img.orient + 3) % 4]
rotate(img) ==
    [img EXCEPT !.h = img.w, !.w = img.h, !.orient = (img.orient + 1) % 4]

---------------------------------------------------------------------------
(* The driver: argument and file checks (lines 278-286) *)

ArgCountWrongMutant(n) == n > RequiredArgc
ArgCountWrong(n) == n # RequiredArgc

FileMissing(exists) == ~exists

Crash ==
    /\ pc' = "crashed"
    /\ exit_status' = 1

UsageCheck ==
    /\ pc = "usage_check"
    /\ IF ArgCountWrong(argc)
       THEN /\ stdout' = Append(stdout, PyStr("USAGE: whatsup filename"))
            /\ exit_status' = 255
            /\ pc' = "exited"
       ELSE /\ pc' = "sanity_check"
            /\ UNCHANGED << stdout, exit_status >>
    /\ UNCHANGED << argc, isfile, decodable, src_h, src_w, image, cascade_idx,
                    counter, image_resized, respond, df_image, df_counter,
                    df_calls, results, calls, ret, samples, bright_arg,
                    bright_ret, pre_k, first_results >>

SanityCheck ==
    /\ pc = "sanity_check"
    /\ IF FileMissing(isfile)
       THEN /\ stdout' = Append(stdout, PyStr("File not found."))
            /\ exit_status' = 255
            /\ pc' = "exited"
       ELSE /\ pc' = "try_detect"
            /\ UNCHANGED << stdout, exit_status >>
    /\ UNCHANGED << argc, isfile, decodable, src_h, src_w, image, cascade_idx,
                    counter, image_resized, respond, df_image, df_counter,
                    df_calls, results, calls, ret, samples, bright_arg,
                    bright_ret, pre_k, first_results >>

---------------------------------------------------------------------------
(* try_detect: loading and preprocessing (lines 166-197) *)

\* the image bound to `image` when the cascade loop starts
Preprocessed(img) == equalizeHist(cvtColor(convertScaleAbs(img)))

TryDetectLoad ==
    /\ pc = "try_detect"
    /\ LET loaded == imread(src_h, src_w, decodable)
       IN  IF loaded = NoImage
           THEN \* convertScaleAbs(None) raises
                /\ Crash
                /\ UNCHANGED << image, cascade_idx >>
           ELSE /\ image' = Preprocessed(loaded)
                /\ cascade_idx' = 1
                /\ pc' = "for_cascade"
                /\ UNCHANGED exit_status
    /\ UNCHANGED << argc, isfile, decodable, src_h, src_w, stdout, counter,
                    image_resized, respond, df_image, df_counter, df_calls,
                    results, calls, ret, samples, bright_arg, bright_ret,
                    pre_k, first_results >>

---------------------------------------------------------------------------
(* try_detect: the cascade loop and the scale loop (lines 201-238) *)

ForCascade ==
    /\ pc = "for_cascade"
    /\ IF cascade_idx <= NumCascades
       THEN /\ counter' = count_start
            /\ pc' = "while_scale"
       ELSE /\ pc' = "fallback"
            /\ UNCHANGED counter
    /\ UNCHANGED << argc, isfile, decodable, src_h, src_w, stdout, exit_status,
                    image, cascade_idx, image_resized, respond, df_image,
                    df_counter, df_calls, results, calls, ret, samples,
                    bright_arg, bright_ret, pre_k, first_results >>

ScaleContinuesMutant(c) == c > count_minimum
ScaleContinues(c) == c >= count_minimum

\* the image whose dimensions are read at line 218 and that is resized at
\* line 227: try_detect's own `image`, which detect_faces never rebinds
ScaleSourceMutant == IF df_image = NoImage THEN image ELSE df_image
ScaleSource == image

WhileScale ==
    /\ pc = "while_scale"
    /\ IF ScaleContinues(counter)
       THEN LET resize_h == PyRound(ScaleSource.h, counter)
                resize_w == PyRound(ScaleSource.w, counter)
            IN  IF resize_h <= 0 \/ resize_w <= 0
                THEN \* cv2.resize raises on an empty destination size
                     /\ Crash
                     /\ UNCHANGED << image_resized, respond, cascade_idx >>
                ELSE /\ image_resized' = resize(ScaleSource, resize_w, resize_h)
                     /\ respond' \in [Orientations -> BOOLEAN]
                     /\ pc' = "df_entry"
                     /\ UNCHANGED << exit_status, cascade_idx >>
       ELSE /\ cascade_idx' = cascade_idx + 1
            /\ pc' = "for_cascade"
            /\ UNCHANGED << exit_status, image_resized, respond >>
    /\ UNCHANGED << argc, isfile, decodable, src_h, src_w, stdout, image,
                    counter, df_image, df_counter, df_calls, results, calls,
                    ret, samples, bright_arg, bright_ret, pre_k,
                    first_results >>

IsNotFalseMutant(r) == r.val # 0
IsNotFalse(r) == r # PyFalse

\* counter = counter - 1 (line 238)
NextScaleMutant(c) == c - 2
NextScale(c) == c - 1

CheckResults ==
    /\ pc = "df_return"
    /\ IF IsNotFalse(results)
       THEN /\ ret' = results
            /\ pc' = "print"
            /\ UNCHANGED counter
       ELSE /\ counter' = NextScale(counter)
            /\ pc' = "while_scale"
            /\ UNCHANGED ret
    /\ UNCHANGED << argc, isfile, decodable, src_h, src_w, stdout, exit_status,
                    image, cascade_idx, image_resized, respond, df_image,
                    df_counter, df_calls, results, calls, samples, bright_arg,
                    bright_ret, pre_k, first_results >>

---------------------------------------------------------------------------
(* detect_faces (lines 58-115) *)

\* len(cc.detectMultiScale(image, ...)): the classifier is asked with
\* CASCADE_FIND_BIGGEST_OBJECT, so it returns at most one box
detectMultiScale(img) == IF respond[img.orient] THEN 1 ELSE 0

RotationsLeftMutant(c) == c <= rotation_maximum
RotationsLeft(c) == c < rotation_maximum

FaceFound(n) == n > 0

RotationOfMutant(c) == (c + 1) * 90
RotationOf(c) == c * 90

DfEntry ==
    /\ pc = "df_entry"
    /\ df_image' = image_resized
    /\ df_counter' = 0
    /\ df_calls' = 0
    /\ pc' = "df_while"
    /\ UNCHANGED << argc, isfile, decodable, src_h, src_w, stdout, exit_status,
                    image, cascade_idx, counter, image_resized, respond,
                    results, calls, ret, samples, bright_arg, bright_ret,
                    pre_k, first_results >>

DfWhile ==
    /\ pc = "df_while"
    /\ IF RotationsLeft(df_counter)
       THEN LET faces_detected == detectMultiScale(df_image)
            IN  /\ calls' = Append(calls,
                        [cascade |-> cascade_idx, scale |-> counter,
                         offset |-> df_counter, orient |-> df_image.orient,
                         hit |-> faces_detected > 0])
                /\ df_calls' = df_calls + 1
                /\ IF FaceFound(faces_detected)
                   THEN /\ results' = PyInt(RotationOf(df_counter))
                        /\ pc' = "df_return"
                        /\ UNCHANGED << df_image, df_counter >>
                   ELSE /\ df_image' = rotate(df_image)
                        /\ df_counter' = df_counter + 1
                        /\ pc' = "df_while"
                        /\ UNCHANGED results
       ELSE /\ results' = PyFalse
            /\ pc' = "df_return"
            /\ UNCHANGED << df_image, df_counter, df_calls, calls >>
    /\ UNCHANGED << argc, isfile, decodable, src_h, src_w, stdout, exit_status,
                    image, cascade_idx, counter, image_resized, respond, ret,
                    samples, bright_arg, bright_ret, pre_k, first_results >>

---------------------------------------------------------------------------
(* detect_brightest_side (lines 119-162) *)

\* the keys of `chunks` and `samples`, in insertion order (lines 145-148)
BandOrder == << "top", "left", "bottom", "right" >>
Bands == { BandOrder[i] : i \in 1 .. Len(BandOrder) }

rotation_map == [top |-> 0, left |-> 90, bottom |-> 180, right |-> 270]

\* number of indices selected by the slice start:stop of an axis of length n
SliceLen(start, stop, n) ==
    LET lo == IF start > n THEN n ELSE start
        hi == IF stop > n THEN n ELSE stop
    IN  IF hi > lo THEN hi - lo ELSE 0

\* the four chunks of an image, as [rows, cols] (lines 145-148)
chunks(img) ==
    [top    |-> [rows |-> SliceLen(0, PyRound(img.h, ratio), img.h),
                 cols |-> SliceLen(0, img.w, img.w)],
     left   |-> [rows |-> SliceLen(0, img.h, img.h),
                 cols |-> SliceLen(0, PyRound(img.w, ratio), img.w)],
     bottom |-> [rows |-> SliceLen(PyRound(boundary * img.h, ratio), img.h, img.h),
                 cols |-> SliceLen(0, img.w, img.w)],
     right  |-> [rows |-> SliceLen(0, img.h, img.h),
                 cols |-> SliceLen(PyRound(boundary * img.w, ratio), img.w, img.w)]]

ChunkEmpty(c) == c.rows = 0 \/ c.cols = 0

\* max(samples, key = samples.get): the first key, in insertion order, whose
\* value no other key exceeds
BetterMutant(a, b) == a >= b
Better(a, b) == a > b

RECURSIVE MaxScan(_, _, _)
MaxScan(s, i, best) ==
    IF i > Len(BandOrder) THEN best
    ELSE MaxScan(s, i + 1,
                 IF Better(s[BandOrder[i]], s[best]) THEN BandOrder[i] ELSE best)

max_side(s) == MaxScan(s, 2, BandOrder[1])

DetectBrightestSide ==
    /\ pc = "fallback"
    /\ bright_arg' = image
    /\ IF \E b \in Bands : ChunkEmpty(chunks(image)[b])
       THEN \* cv2.resize raises on an empty source
            /\ Crash
            /\ UNCHANGED << samples, bright_ret, ret >>
       ELSE /\ \E s \in [Bands -> 0 .. MaxMean] :
                  /\ samples' = s
                  /\ bright_ret' = PyInt(rotation_map[max_side(s)])
                  /\ ret' = PyInt(rotation_map[max_side(s)])
            /\ pc' = "print"
            /\ UNCHANGED exit_status
    /\ UNCHANGED << argc, isfile, decodable, src_h, src_w, stdout, image,
                    cascade_idx, counter, image_resized, respond, df_image,
                    df_counter, df_calls, results, calls, pre_k,
                    first_results >>

---------------------------------------------------------------------------
(* The driver: the call of try_detect and the output (lines 290-294) *)

PrintRotation ==
    /\ pc = "print"
    /\ LET rotation == ret.val      \* int(try_detect(True))
       IN  stdout' = Append(stdout, PyInt(rotation))
    /\ exit_status' = 0
    /\ pc' = "done"
    /\ UNCHANGED << argc, isfile, decodable, src_h, src_w, image, cascade_idx,
                    counter, image_resized, respond, df_image, df_counter,
                    df_calls, results, calls, ret, samples, bright_arg,
                    bright_ret, pre_k, first_results >>

---------------------------------------------------------------------------
(* The program *)

NoSamples == [b \in Bands |-> 0]
NoRespond == [o \in Orientations |-> FALSE]

Locals ==
    /\ stdout = << >>
    /\ exit_status = -1
    /\ cascade_idx = 0
    /\ counter = 0
    /\ df_image = NoImage
    /\ df_counter = 0
    /\ df_calls = 0
    /\ results = PyNone
    /\ calls = << >>
    /\ ret = PyNone
    /\ samples = NoSamples
    /\ bright_arg = NoImage
    /\ bright_ret = PyNone
    /\ first_results = PyNone

Init ==
    /\ pc = "usage_check"
    /\ argc \in 1 .. MaxArgc
    /\ isfile \in BOOLEAN
    /\ decodable \in BOOLEAN
    /\ decodable => isfile
    /\ src_h \in 1 .. MaxDim
    /\ src_w \in 1 .. MaxDim
    /\ image = NoImage
    /\ image_resized = NoImage
    /\ respond = NoRespond
    /\ pre_k = 0
    /\ Locals

Next ==
    \/ UsageCheck
    \/ SanityCheck
    \/ TryDetectLoad
    \/ ForCascade
    \/ WhileScale
    \/ DfEntry
    \/ DfWhile
    \/ CheckResults
    \/ DetectBrightestSide
    \/ PrintRotation

Spec == Init /\ [][Next]_vars

\* The program is one sequential thread: the interpreter always takes the
\* next step while there is one.
SpecFair == Spec /\ WF_vars(Next)

---------------------------------------------------------------------------
(* detect_brightest_side applied to every image of the bounded sizes *)

InitBright ==
    /\ pc = "fallback"
    /\ argc = RequiredArgc
    /\ isfile = TRUE
    /\ decodable = TRUE
    /\ src_h \in 1 .. MaxDim
    /\ src_w \in 1 .. MaxDim
    /\ image \in { imread(src_h, src_w, TRUE),
                   Preprocessed(imread(src_h, src_w, TRUE)) }
    /\ image_resized = NoImage
    /\ respond = NoRespond
    /\ pre_k = 0
    /\ Locals

NextBright == DetectBrightestSide

SpecBright == InitBright /\ [][NextBright]_vars

---------------------------------------------------------------------------
(* detect_faces applied to a picture and then to the same picture turned   *)
(* clockwise pre_k times, with the same classifier                         *)

\* img turned clockwise k times
Turned(img, k) ==
    [img EXCEPT !.h = IF k % 2 = 0 THEN img.h ELSE img.w,
                !.w = IF k % 2 = 0 THEN img.w ELSE img.h,
                !.orient = (img.orient + k) % 4]

InitRot ==
    /\ pc = "df_entry"
    /\ argc = RequiredArgc
    /\ isfile = TRUE
    /\ decodable = TRUE
    /\ src_h \in 1 .. MaxDim
    /\ src_w \in 1 .. MaxDim
    /\ image = Preprocessed(imread(src_h, src_w, TRUE))
    /\ image_resized = image
    /\ respond \in [Orientations -> BOOLEAN]
    /\ pre_k \in Orientations
    /\ Locals

SearchTurned ==
    /\ pc = "df_return"
    /\ first_results = PyNone
    /\ first_results' = results
    /\ image_resized' = Turned(image, pre_k)
    /\ pc' = "df_entry"
    /\ UNCHANGED << argc, isfile, decodable, src_h, src_w, stdout, exit_status,
                    image, cascade_idx, counter, respond, df_image, df_counter,
                    df_calls, results, calls, ret, samples, bright_arg,
                    bright_ret, pre_k >>

NextRot ==
    \/ DfEntry
    \/ DfWhile
    \/ SearchTurned

SpecRot == InitRot /\ [][NextRot]_vars

---------------------------------------------------------------------------
(* Properties *)

Rotations == { 0, 90, 180, 270 }

Min(S) == CHOOSE x \in S : \A y \in S : x <= y

Ended == pc \in { "done", "crashed", "exited" }

NoHit == \A i \in 1 .. Len(calls) : ~calls[i].hit

\* C1: every run that passes the argument and file checks ends having
\* printed exactly one integer, and that integer is 0, 90, 180 or 270.
C1_OneRotationPrinted ==
    (Ended /\ argc = RequiredArgc /\ isfile) =>
        /\ Len(stdout) = 1
        /\ stdout[1].tag = "int"
        /\ stdout[1].val \in Rotations

\* C2: with a wrong argument count or a path that is no existing file the
\* program only ever prints one message and exits with a non-zero status:
\* try_detect is never entered, the classifier is never invoked and no
\* rotation is printed.
C2_ErrorsNeverReachCore ==
    (argc # RequiredArgc \/ ~isfile) =>
        /\ pc \in { "usage_check", "sanity_check", "exited" }
        /\ image = NoImage
        /\ calls = << >>
        /\ bright_arg = NoImage
        /\ \A i \in 1 .. Len(stdout) : stdout[i].tag = "str"
        /\ pc = "exited" => (exit_status # 0 /\ Len(stdout) = 1)
        /\ pc # "exited" => (exit_status = -1 /\ stdout = << >>)

C2_Witness ==
    /\ pc = "exited"
    /\ argc = RequiredArgc
    /\ ~isfile
    /\ exit_status = 255
    /\ Len(stdout) = 1

\* C3: when detect_faces returns, its result is 90 times the smallest number
\* j of clockwise quarter turns of its input at which the classifier
\* answers, and if there is no such j in 0..3 the result is False and the
\* classifier was invoked exactly 4 times.
C3_FirstRotationWins ==
    pc = "df_return" =>
        LET o == image_resized.orient
            H == { j \in 0 .. 3 : respond[(o + j) % 4] }
        IN  IF H # {}
            THEN results = PyInt(90 * Min(H))
            ELSE results = PyFalse /\ df_calls = 4

C3_Witness ==
    /\ pc = "df_return"
    /\ results = PyInt(180)
    /\ df_calls = 3
    /\ counter = 1
    /\ cascade_idx = 1

\* C4: the classifier invocations happen in the order cascade, then scale 2
\* before scale 1, then offset 0..3; an invocation that detects something is
\* the last one, and its offset times 90 is what try_detect returns and the
\* program prints.
C4_FirstSuccessDecides ==
    \A i \in 1 .. Len(calls) :
        /\ calls[i].cascade = ((i - 1) \div 8) + 1
        /\ calls[i].scale = 2 - (((i - 1) \div 4) % 2)
        /\ calls[i].offset = (i - 1) % 4
        /\ calls[i].hit =>
              /\ i = Len(calls)
              /\ pc \in { "df_return", "print", "done" }
              /\ pc = "df_return" => results = PyInt(calls[i].offset * 90)
              /\ pc = "print" => ret = PyInt(calls[i].offset * 90)
              /\ pc = "done" => stdout = << PyInt(calls[i].offset * 90) >>

C4_Witness ==
    /\ pc = "done"
    /\ Len(calls) = 14
    /\ calls[Len(calls)].hit
    /\ calls[Len(calls)].cascade = 2
    /\ calls[Len(calls)].scale = 1
    /\ calls[Len(calls)].offset = 1
    /\ stdout = << PyInt(90) >>

\* C5: the search hands over to detect_brightest_side only after exactly
\* NumCascades x 2 x 4 classifier invocations that all returned nothing, and
\* a run in which no invocation returned anything prints exactly the value
\* detect_brightest_side returned.
C5_ExhaustionThenFallback ==
    /\ pc = "fallback" => (NoHit /\ Len(calls) = NumCascades * 2 * 4)
    /\ (pc = "done" /\ NoHit) =>
          /\ Len(calls) = NumCascades * 2 * 4
          /\ bright_ret.tag = "int"
          /\ ret = bright_ret
          /\ stdout = << bright_ret >>

C5_Witness ==
    /\ pc = "done"
    /\ NoHit
    /\ Len(calls) = 32
    /\ stdout = << PyInt(270) >>
    /\ bright_ret = PyInt(270)

\* C6: the image handed to detect_brightest_side is the decoded colour
\* image, not the contrast-scaled, grayscale, equalized copy.
C6_FallbackGetsOriginal ==
    bright_arg # NoImage =>
        /\ bright_arg.channels = 3
        /\ ~bright_arg.scaled
        /\ ~bright_arg.equalized

\* C7: detect_brightest_side returns the rotation (top 0, left 90, bottom
\* 180, right 270) of a band whose sample is the maximum, and of the first
\* such band in the order top, left, bottom, right; the answer is fixed by
\* the four samples.
C7_BrightestBandFirstOnTie ==
    bright_ret # PyNone =>
        \E b \in 1 .. 4 :
            /\ bright_ret = PyInt(<< 0, 90, 180, 270 >>[b])
            /\ \A c \in 1 .. 4 :
                  samples[<< "top", "left", "bottom", "right" >>[c]]
                      <= samples[<< "top", "left", "bottom", "right" >>[b]]
            /\ \A c \in 1 .. (b - 1) :
                  samples[<< "top", "left", "bottom", "right" >>[c]]
                      < samples[<< "top", "left", "bottom", "right" >>[b]]

C7_Witness ==
    /\ pc = "print"
    /\ samples = [b \in Bands |-> MaxMean]
    /\ bright_ret = PyInt(0)

\* C8: for every image of height >= 1 and width >= 1 the four bands are
\* non-empty and detect_brightest_side does not end in an error.
C8_FallbackTotal ==
    (bright_arg # NoImage /\ bright_arg.h >= 1 /\ bright_arg.w >= 1) =>
        /\ \A b \in Bands : ~ChunkEmpty(chunks(bright_arg)[b])
        /\ pc # "crashed"

\* C9 as claimed: if detect_faces succeeds at offset 0 on the un-rotated
\* image, then on the image turned clockwise pre_k times it reports
\* pre_k * 90.
C9_TurnedReportsK ==
    (pc = "df_return" /\ first_results = PyInt(0)) =>
        results = PyInt(pre_k * 90)

\* C9 amended: if detect_faces succeeds at offset 0 on the un-rotated image,
\* then on the image turned clockwise pre_k times it succeeds and reports at
\* most ((4 - pre_k) mod 4) * 90, and exactly that when the classifier
\* answers at no other orientation.
C9_TurnedReportsComplement ==
    (pc = "df_return" /\ first_results = PyInt(0)) =>
        /\ results.tag = "int"
        /\ results.val \in Rotations
        /\ results.val <= ((4 - pre_k) % 4) * 90
        /\ (\A o \in 1 .. 3 : ~respond[o]) =>
              results = PyInt(((4 - pre_k) % 4) * 90)

C9_Witness ==
    /\ pc = "df_return"
    /\ first_results = PyInt(0)
    /\ pre_k = 1
    /\ \A o \in 1 .. 3 : ~respond[o]
    /\ results = PyInt(270)

\* C10: if detect_faces on the image turned clockwise pre_k times succeeds
\* at offset j, the detected picture is the original turned (j + pre_k) mod 4
\* times, and when the classifier answers at exactly one orientation
\* detect_faces on the original reports ((j + pre_k) mod 4) * 90.
C10_RotationComposes ==
    (pc = "df_return" /\ first_results # PyNone /\ results.tag = "int") =>
        LET j == calls[Len(calls)].offset
        IN  /\ results = PyInt(j * 90)
            /\ calls[Len(calls)].orient = (j + pre_k) % 4
            /\ Cardinality({ o \in Orientations : respond[o] }) = 1 =>
                  first_results = PyInt(((j + pre_k) % 4) * 90)

C10_Witness ==
    /\ pc = "df_return"
    /\ first_results = PyInt(90)
    /\ pre_k = 3
    /\ results = PyInt(180)
    /\ Cardinality({ o \in Orientations : respond[o] }) = 1

\* C11: the run always comes to an end, whatever the classifier answers,
\* and the classifier is never invoked more than NumCascades x 2 x 4 times
\* in one run.
C11_TerminatesWithinBudget ==
    /\ <>Ended
    /\ [](Len(calls) <= NumCascades * 2 * 4)

C11_Witness ==
    /\ pc = "done"
    /\ NoHit
    /\ Len(calls) = NumCascades * 2 * 4
    /\ bright_ret = PyInt(0)

\* the four invocations before invocation i are one fruitless detect_faces
\* call of cascade c at scale sc
FruitlessBefore(i, c, sc) ==
    /\ i > 4
    /\ \A d \in 1 .. 4 :
          /\ calls[i - d].cascade = c
          /\ calls[i - d].scale = sc
          /\ calls[i - d].offset = 4 - d
          /\ ~calls[i - d].hit

\* C12: every cascade that is reached starts at scale 2 and gets at most
\* two detect_faces calls, scale 2 then scale 1; the scale-1 call follows a
\* fruitless scale-2 call of the same cascade, and the first call of the
\* next cascade follows a fruitless scale-1 call of the previous one.
C12_HalfThenFullPerCascade ==
    /\ pc \in { "df_entry", "df_while", "df_return" } => counter \in { 1, 2 }
    /\ \A c \in 1 .. NumCascades :
          Cardinality({ i \in 1 .. Len(calls) :
                          calls[i].cascade = c /\ calls[i].offset = 0 }) <= 2
    /\ \A i \in 1 .. Len(calls) :
          /\ calls[i].scale \in { 1, 2 }
          /\ calls[i].offset = 0 =>
                IF calls[i].scale = 2
                THEN /\ \A e \in 1 .. (i - 1) : calls[e].cascade # calls[i].cascade
                     /\ IF calls[i].cascade = 1 THEN i = 1
                        ELSE FruitlessBefore(i, calls[i].cascade - 1, 1)
                ELSE FruitlessBefore(i, calls[i].cascade, 2)

C12_Witness ==
    /\ pc = "df_entry"
    /\ cascade_idx = 2
    /\ counter = 2
    /\ Len(calls) = 8
    /\ NoHit

\* C13: try_detect's image is never turned: it keeps the stored picture's
\* dimensions and orientation; every detect_faces call gets a resized copy
\* of it at orientation 0 and starts at offset 0 on that copy, the turns
\* stay in detect_faces' own variable, and detect_brightest_side gets the
\* unturned image.
C13_RotationsStayLocal ==
    /\ image # NoImage =>
          (image.orient = 0 /\ image.h = src_h /\ image.w = src_w)
    /\ pc \in { "df_entry", "df_while", "df_return" } =>
          /\ image_resized.orient = 0
          /\ image_resized.h = PyRound(src_h, counter)
          /\ image_resized.w = PyRound(src_w, counter)
    /\ pc = "df_while" =>
          /\ df_image.orient = df_counter % 4
          /\ df_counter = 0 => df_image = image_resized
    /\ \A i \in 1 .. Len(calls) : calls[i].orient = calls[i].offset
    /\ bright_arg # NoImage =>
          (bright_arg.orient = 0 /\ bright_arg.h = src_h /\ bright_arg.w = src_w)

C13_Witness ==
    /\ pc = "df_while"
    /\ Len(calls) = 4
    /\ calls[2].orient = 1
    /\ counter = 1
    /\ df_counter = 0
    /\ df_image.orient = 0
    /\ src_h = 3
    /\ src_w = 2
    /\ df_image.h = 3
    /\ df_image.w = 2

\* C14: detect_brightest_side is entered only when all NumCascades x 2 x 4
\* attempts were made and none detected anything; once an invocation has
\* detected something the fallback is never run and the printed value is
\* the detection's.
C14_FallbackOnlyAfterExhaustion ==
    /\ (pc = "fallback" \/ bright_arg # NoImage) =>
          /\ NoHit
          /\ \A c \in 1 .. NumCascades : \A sc \in { 1, 2 } : \A o \in 0 .. 3 :
                \E i \in 1 .. Len(calls) :
                    /\ calls[i].cascade = c
                    /\ calls[i].scale = sc
                    /\ calls[i].offset = o
    /\ ~NoHit =>
          /\ pc # "fallback"
          /\ bright_arg = NoImage
          /\ bright_ret = PyNone
          /\ samples = NoSamples
          /\ pc = "done" => stdout = << PyInt(results.val) >>

C14_Witness ==
    /\ pc = "done"
    /\ Len(calls) = NumCascades * 2 * 4
    /\ calls[Len(calls)].hit
    /\ bright_arg = NoImage
    /\ stdout = << PyInt(270) >>

\* C15: when detect_faces returns 0, the next step of try_detect is to
\* return 0: no further scale, cascade or classifier invocation and no
\* fallback; the program then prints 0.
C15_ZeroIsAResult ==
    /\ [][(pc = "df_return" /\ results = PyInt(0)) =>
             /\ pc' = "print"
             /\ ret' = PyInt(0)
             /\ UNCHANGED << calls, counter, cascade_idx, bright_arg, bright_ret >>]_vars
    /\ []((pc = "done" /\ results = PyInt(0)) =>
             /\ stdout = << PyInt(0) >>
             /\ calls[Len(calls)].hit
             /\ bright_arg = NoImage)

C15_Witness ==
    /\ pc = "print"
    /\ results = PyInt(0)
    /\ ret = PyInt(0)
    /\ Len(calls) = 9
    /\ bright_arg = NoImage

\* C16: for every decoded image both scale attempts give positive
\* dimensions, round(h / counter) >= 1 and round(w / counter) >= 1 for
\* counter 2 and 1, and the resize before detect_faces does not end in an
\* error.
C16_ResizePositive ==
    image # NoImage =>
        /\ \A c \in { 2, 1 } : PyRound(image.h, c) >= 1 /\ PyRound(image.w, c) >= 1
        /\ ~(pc = "crashed" /\ bright_arg = NoImage)

===========================================================================
